---- MODULE Spec2Model ----
(***************************************************************************)
(* A model of the signal-to-trade engine of crypto-trading-saas:           *)
(*   backend/services/tradingService.js   processWebhookSignal,            *)
(*                                        parseSignal, executeTrade        *)
(*   backend/models/Trade (models/index.js)  post('save') hook             *)
(*   backend/models/Strategy (unnamed/part_006)  confidence learning       *)
(*   backend/models/TradingConfig.js      emergency stop, daily stats      *)
(*   backend/controllers/webhookController.js  webhook entry points        *)
(*                                                                         *)
(* Strings that the code manipulates (symbols) are sequences of one-letter *)
(* strings, so that String.prototype.replace is computed, not assumed.     *)
(* Confidence scores are fixed-point numbers with ConfScale units per      *)
(* point.                                                                  *)
(***************************************************************************)
EXTENDS Integers, Sequences, FiniteSets, TLC

VARIABLES
    rawSymbol,      \* SpecNorm: the symbol text of an incoming signal
    normSymbol,     \* SpecNorm: the symbol after normCount normalisations
    normCount,      \* SpecNorm: how many times the normalisation was applied
    strategy,       \* SpecConf: one Strategy document; SpecAI: the Strategy
                    \* documents of one user and strategy name, by creation
    user,           \* Spec: the User document in the store
    config,         \* Spec: the user's TradingConfig document in the store
    trades,         \* Spec: the user's Trade documents of today, by creation
    calls,          \* Spec: per webhook request, the locals of its handler
    webhookLog,     \* Spec: per webhook request, its WebhookLog document
    connector       \* Spec: per webhook request, the calls made to the exchange

normVars == <<rawSymbol, normSymbol, normCount>>

confVars == <<strategy>>

engineVars == <<user, config, trades, calls, webhookLog, connector>>

vars == <<rawSymbol, normSymbol, normCount, strategy,
          user, config, trades, calls, webhookLog, connector>>

----------------------------------------------------------------------------
(* Symbol normalisation: parseSignal, symbol.replace('USDT', '')           *)

\* how many tokens an input symbol of SpecNorm is built from
MaxTokens == 3

USDT == <<"U", "S", "D", "T">>

\* the pieces input symbols are concatenated from
SymbolTokens == { <<"B", "T", "C">>, USDT, <<"U", "S">>, <<"D", "T">> }

RECURSIVE Concat(_)
Concat(ts) == IF ts = <<>> THEN <<>> ELSE Head(ts) \o Concat(Tail(ts))

SymbolInputs ==
    { Concat(ts) : ts \in UNION { [1..n -> SymbolTokens] : n \in 0..MaxTokens } }

\* pattern p occurs in s at position i
OccursAt(s, p, i) ==
    /\ i + Len(p) - 1 <= Len(s)
    /\ \A k \in 1..Len(p) : s[i + k - 1] = p[k]

\* String.prototype.replace(p, '') with a string pattern: the FIRST occurrence
\* of p, wherever it is, is removed; without an occurrence s is returned.
ReplaceFirst(s, p) ==
    LET hits == { i \in 1..Len(s) : OccursAt(s, p, i) }
    IN  IF hits = {} THEN s
        ELSE LET i == CHOOSE j \in hits : \A h \in hits : j <= h
             IN  SubSeq(s, 1, i - 1) \o SubSeq(s, i + Len(p), Len(s))

\* parseSignal's symbol: symbol.replace('USDT', '')
NormalizeSymbol(s) == ReplaceFirst(s, USDT)

NormInit ==
    /\ rawSymbol \in SymbolInputs
    /\ normSymbol = rawSymbol
    /\ normCount = 0

\* the value of SpecNorm's variables in the other specifications
NormIdle ==
    /\ rawSymbol = <<>>
    /\ normSymbol = <<>>
    /\ normCount = 0

\* parseSignal applied to a signal whose symbol is the last result
ParseSymbol ==
    /\ UNCHANGED <<confVars, engineVars>>
    /\ normCount < 2
    /\ normSymbol' = NormalizeSymbol(normSymbol)
    /\ normCount' = normCount + 1
    /\ UNCHANGED rawSymbol

NormNext == ParseSymbol

----------------------------------------------------------------------------
(* Strategy confidence learning: Strategy.updatePerformance and            *)
(* Strategy.updateConfidenceScore                                          *)

\* how many trades a strategy of SpecConf is updated with
MaxUpdates == 24

\* fixed-point units per confidence point (and per unit of winRate, avgPnL)
ConfScale == 100

DefaultConfidence == 50
MaxConfidence == 95
MinConfidence == 5
\* learningRate = 0.1 = LearningRateNum / LearningRateDen
LearningRateNum == 1
LearningRateDen == 10
\* the consecutive-loss penalty 0.8 = PenaltyNum / PenaltyDen
PenaltyNum == 8
PenaltyDen == 10
PenaltyLosses == 3

\* the pnl of the trades a strategy is updated with
TradePnLs == {0, 1}

Min(a, b) == IF a <= b THEN a ELSE b
Max(a, b) == IF a >= b THEN a ELSE b
Abs(n) == IF n < 0 THEN 0 - n ELSE n

\* a Strategy document as the schema defaults create it
NewStrategy ==
    [ totalTrades |-> 0, winningTrades |-> 0, losingTrades |-> 0,
      winRate |-> 0, totalPnL |-> 0, avgPnL |-> 0,
      confidenceScore |-> DefaultConfidence * ConfScale,
      consecutiveLosses |-> 0 ]

\* a learning step that moves a win by a tenth of the score itself
LearnedSymmetric(c, isWin) ==
    IF isWin
    THEN Min(MaxConfidence * ConfScale,
             c + (LearningRateNum * c) \div LearningRateDen)
    ELSE Max(MinConfidence * ConfScale,
             c - (LearningRateNum * c) \div LearningRateDen)

\* the learning step of updateConfidenceScore, before the penalty
LearnedConfidence(c, isWin) ==
    IF isWin
    THEN Min(MaxConfidence * ConfScale,
             c + (LearningRateNum * (100 * ConfScale - c)) \div LearningRateDen)
    ELSE Max(MinConfidence * ConfScale,
             c - (LearningRateNum * c) \div LearningRateDen)

\* the penalty without its floor
PenalizedUnclamped(c) == (c * PenaltyNum) \div PenaltyDen

\* the additional penalty for consecutive losses
PenalizedConfidence(c) ==
    Max(MinConfidence * ConfScale, (c * PenaltyNum) \div PenaltyDen)

\* Strategy.updateConfidenceScore(isWin) on document s
UpdateConfidenceScore(s, isWin) ==
    LET learned == LearnedConfidence(s.confidenceScore, isWin)
    IN  [s EXCEPT !.confidenceScore =
            IF s.consecutiveLosses >= PenaltyLosses
            THEN PenalizedConfidence(learned)
            ELSE learned]

\* Strategy.updatePerformance(trade) on document s, for a trade of that pnl
UpdatePerformance(s, pnl) ==
    LET total == s.totalTrades + 1
        sumPnL == s.totalPnL + pnl
        wins == IF pnl > 0 THEN s.winningTrades + 1 ELSE s.winningTrades
        counted ==
            [s EXCEPT !.totalTrades = total,
                      !.totalPnL = sumPnL,
                      !.avgPnL = (sumPnL * ConfScale) \div total,
                      !.winningTrades = wins,
                      !.losingTrades = IF pnl > 0 THEN @ ELSE @ + 1,
                      !.consecutiveLosses = IF pnl > 0 THEN 0 ELSE @ + 1,
                      !.winRate = (wins * 100 * ConfScale) \div total]
    IN  UpdateConfidenceScore(counted, pnl > 0)

ConfInit == strategy = NewStrategy

ConfIdle == strategy = NewStrategy

\* strategy.updatePerformance(trade) for a trade with pnl p
StrategyUpdate ==
    /\ UNCHANGED <<normVars, engineVars>>
    /\ strategy.totalTrades < MaxUpdates
    /\ \E p \in TradePnLs : strategy' = UpdatePerformance(strategy, p)

ConfNext == StrategyUpdate

----------------------------------------------------------------------------
(* The engine: webhook entry points, processWebhookSignal, executeTrade,   *)
(* the Trade post-save hook and the TradingConfig stop controls.           *)
(* One user, one trading day: every Trade document counts as created       *)
(* today.  A missing, null or empty value is the empty string (or the      *)
(* empty sequence for a symbol) and a missing or zero number is 0: the     *)
(* code tests all of them by truthiness alone.                             *)

\* how many webhook requests arrive in one run
MaxRequests == 2

\* the user's riskSettings.maxTradeCountPerDay
TradeLimit == 1

RequestIds == 1..MaxRequests

BTC == <<"B", "T", "C">>
DOGE == <<"D", "O", "G", "E">>

\* User.enabledCoins of the modelled user
EnabledCoins == { BTC }

\* the values of riskSettings.dailyLossCap the user is modelled with
DailyLossCaps == {0, 1000}

\* the values of user.consecutiveLosses carried into the day
CarriedLosses == {2, 3}

\* the user's paperTradingMode and deltaConnected
ExecutionModes ==
    { [paper |-> TRUE, delta |-> TRUE],
      [paper |-> FALSE, delta |-> TRUE],
      [paper |-> FALSE, delta |-> FALSE] }

\* calculatePositionSize's fixed account balance
AccountBalance == 10000

\* the price getCurrentPrice returns when the ticker request fails
DefaultPrice == 50000

\* the mark prices the exchange reports when the ticker request succeeds
MarkPrices == {200}

\* riskSettings.maxTradeSizePercent of the modelled user (the schema default)
MaxTradeSizePercent == 5

\* the fixed confidence of a webhook trade
WebhookConfidence == 75

\* the consecutive-loss cutoff of processWebhookSignal
LossCutoff == 3

\* The webhook payloads of the model.  format "text" is a TradingView alert
\* given by the values of its ACTION:, SYMBOL: and PRICE: lines, "json" a
\* structured body, "other" a payload that is neither string nor object.
\* Quantities are in hundredths.
Signals ==
    { [format |-> "json", action |-> "buy", symbol |-> BTC \o USDT,
       price |-> 100, quantity |-> 0],
      [format |-> "json", action |-> "SELL", symbol |-> BTC \o USDT,
       price |-> 0, quantity |-> 0],
      [format |-> "text", action |-> "Buy", symbol |-> BTC \o USDT,
       price |-> 100, quantity |-> 0],
      [format |-> "json", action |-> "buy", symbol |-> DOGE \o USDT,
       price |-> 100, quantity |-> 0],
      [format |-> "json", action |-> "hold", symbol |-> BTC \o USDT,
       price |-> 100, quantity |-> 0],
      [format |-> "text", action |-> "", symbol |-> BTC \o USDT,
       price |-> 100, quantity |-> 0],
      [format |-> "other", action |-> "", symbol |-> <<>>,
       price |-> 0, quantity |-> 0] }

\* String.prototype.toUpperCase on the action tokens of the model
ToUpperCase(t) ==
    CASE t \in {"buy", "Buy", "BUY"} -> "BUY"
      [] t \in {"sell", "Sell", "SELL"} -> "SELL"
      [] t \in {"hold", "HOLD"} -> "HOLD"
      [] t \in {"close", "CLOSE"} -> "CLOSE"
      [] OTHER -> t

\* parseSignal's null
NoSignal ==
    [valid |-> FALSE, symbol |-> <<>>, side |-> "", price |-> 0,
     type |-> "", quantity |-> 0]

\* parseSignal(signal)
ParseSignal(signal) ==
    CASE signal.format = "text" ->
            IF signal.action # "" /\ signal.symbol # <<>>
            THEN [valid |-> TRUE,
                  symbol |-> NormalizeSymbol(signal.symbol),
                  side |-> IF ToUpperCase(signal.action) = "BUY"
                           THEN "BUY" ELSE "SELL",
                  price |-> signal.price,
                  type |-> "MARKET",
                  quantity |-> 0]
            ELSE NoSignal
      [] signal.format = "json" ->
            [valid |-> TRUE,
             symbol |-> NormalizeSymbol(signal.symbol),
             side |-> ToUpperCase(signal.action),
             price |-> signal.price,
             type |-> "MARKET",
             quantity |-> signal.quantity]
      [] OTHER -> NoSignal

\* a position size rounded up to the next hundredth
RoundedUpPositionSize(u, price) ==
    (AccountBalance * u.maxTradeSizePercent + price - 1) \div price

\* calculatePositionSize(user, price), in hundredths:
\* Math.floor(accountBalance * (maxTradeSizePercent / 100) / price * 100) / 100
CalculatePositionSize(u, price) ==
    (AccountBalance * u.maxTradeSizePercent) \div price

\* the Trade schema's validation of a document that Trade.create is given
TradeIsValid(t) ==
    /\ t.side \in {"BUY", "SELL"}
    /\ t.type \in {"MARKET", "LIMIT"}
    /\ t.symbol # <<>>
    /\ t.price # 0

\* a document that is FILLED from its creation
TradeFilledAtCreation(u, signal, price) ==
    [ symbol |-> signal.symbol \o USDT,
      side |-> signal.side,
      type |-> "MARKET",
      quantity |-> signal.quantity,
      price |-> price,
      executedPrice |-> price,
      status |-> "FILLED",
      orderId |-> "",
      strategy |-> "webhook_signal",
      confidenceScore |-> WebhookConfidence,
      pnl |-> 0,
      fees |-> 0,
      paperTrade |-> u.paperTradingMode ]

\* the document executeTrade gives to Trade.create; the schema defaults fill
\* status, executedPrice, pnl, fees and orderId
NewTrade(u, signal, price) ==
    [ symbol |-> signal.symbol \o USDT,
      side |-> signal.side,
      type |-> IF signal.type # "" THEN signal.type ELSE "MARKET",
      quantity |-> IF signal.quantity # 0 THEN signal.quantity
                   ELSE CalculatePositionSize(u, price),
      price |-> price,
      executedPrice |-> 0,
      status |-> "PENDING",
      orderId |-> "",
      strategy |-> "webhook_signal",
      confidenceScore |-> WebhookConfidence,
      pnl |-> 0,
      fees |-> 0,
      paperTrade |-> u.paperTradingMode ]

\* the locals of a handler that has not started or has returned
NoUser == [present |-> FALSE]

NoCall ==
    [ signal |-> NoSignal, user |-> NoUser, price |-> 0, trade |-> 0,
      status |-> "", executedPrice |-> 0, orderId |-> "", loaded |-> NoUser ]

NoLog ==
    [ created |-> FALSE, processed |-> FALSE, tradeExecuted |-> FALSE,
      tradeId |-> 0, processingError |-> "",
      stoppedOnArrival |-> FALSE ]

\* a TradingConfig document as the schema defaults create it
NewConfig ==
    [ isActive |-> TRUE, emergencyStop |-> FALSE, emergencyStopReason |-> "",
      capitalConservationMode |-> FALSE ]

UserInit(cap, paper, delta, losses) ==
    [ present |-> TRUE,
      tradingActive |-> TRUE,
      paperTradingMode |-> paper,
      deltaConnected |-> delta,
      enabledCoins |-> EnabledCoins,
      dailyLossCap |-> cap,
      maxTradeCountPerDay |-> TradeLimit,
      maxTradeSizePercent |-> MaxTradeSizePercent,
      totalTrades |-> losses,
      winningTrades |-> 0,
      totalPnL |-> 0,
      dailyPnL |-> 0,
      consecutiveLosses |-> losses ]

EngineInit ==
    /\ \E cap \in DailyLossCaps, mode \in ExecutionModes,
          losses \in CarriedLosses :
            user = UserInit(cap, mode.paper, mode.delta, losses)
    /\ config = NewConfig
    /\ trades = <<>>
    /\ calls = [r \in RequestIds |-> [pc |-> "new", locals |-> NoCall]]
    /\ webhookLog = [r \in RequestIds |-> NoLog]
    /\ connector = [r \in RequestIds |->
                        [priceFetches |-> 0, orders |-> 0, fillEvents |-> 0]]

\* the value of Spec's variables in the other specifications
EngineIdle ==
    /\ user = NoUser
    /\ config = NewConfig
    /\ trades = <<>>
    /\ calls = <<>>
    /\ webhookLog = <<>>
    /\ connector = <<>>

Locals(r) == calls[r].locals

\* the handler of request r moves to pc with its locals changed
Goto(r, pc, locals) ==
    calls' = [calls EXCEPT ![r] = [pc |-> pc, locals |-> locals]]

\* the handler of request r returns: its locals are gone
Return(r) ==
    calls' = [calls EXCEPT ![r] = [pc |-> "done", locals |-> NoCall]]

\* processWebhookSignal's catch block: the WebhookLog (log) is given the error
\* and the error is thrown on to the controller, which only logs it
CatchBlock(r, log, msg) ==
    /\ webhookLog' = [log EXCEPT ![r].processed = TRUE,
                                 ![r].processingError = msg]
    /\ Return(r)

\* a rejection that leaves a REJECTED Trade document behind
RejectRecordingTrade(r, log, msg) ==
    /\ CatchBlock(r, log, msg)
    /\ trades' = Append(trades,
                        [NewTrade(user, NoSignal, 100)
                            EXCEPT !.status = "REJECTED"])
    /\ UNCHANGED <<user, config, connector>>

\* a throw of processWebhookSignal (or of executeTrade) that no write precedes
Reject(r, log, msg) ==
    /\ CatchBlock(r, log, msg)
    /\ UNCHANGED <<user, config, trades, connector>>

\* processWebhookSignal's normal return: the WebhookLog is given the trade
Complete(r) ==
    /\ webhookLog' = [webhookLog EXCEPT ![r].processed = TRUE,
                                        ![r].tradeExecuted = TRUE,
                                        ![r].tradeId = Locals(r).trade]
    /\ Return(r)

\* user.enabledCoins.includes(symbol)
CoinEnabled(u, symbol) == symbol \in u.enabledCoins

\* todayTrades >= user.riskSettings.maxTradeCountPerDay
TradeLimitReached(u, todayTrades) == todayTrades >= u.maxTradeCountPerDay

\* a cutoff that needs one loss more
LossCutoffExceeded(u) == u.consecutiveLosses > LossCutoff

\* user.consecutiveLosses >= 3
LossCutoffReached(u) == u.consecutiveLosses >= LossCutoff

\* currentDayPnL <= -user.riskSettings.dailyLossCap
LossCapReached(u, currentDayPnL) == currentDayPnL <= 0 - u.dailyLossCap

\* a count that leaves the REJECTED trades out
CountAcceptedTrades ==
    Cardinality({i \in 1..Len(trades) : trades[i].status # "REJECTED"})

\* Trade.countDocuments({userId, createdAt >= today})
CountTodayTrades == Len(trades)

RECURSIVE SumFilledPnL(_)
SumFilledPnL(ts) ==
    IF ts = <<>> THEN 0
    ELSE (IF Head(ts).status = "FILLED" THEN Head(ts).pnl ELSE 0)
         + SumFilledPnL(Tail(ts))

\* Trade.aggregate: the sum of pnl over today's FILLED trades, 0 without any
TodayPnL == SumFilledPnL(trades)

\* handleTradingViewWebhook and handleGenericWebhook, then processWebhookSignal
\* up to its first await: the user is loaded, a user whose trading is not
\* active is turned away, the WebhookLog is created, the payload is parsed
\* and the coin is checked.  stoppedOnArrival records, for the properties
\* only, whether the emergency stop was set when the signal arrived.
Receive(r) ==
    /\ UNCHANGED <<normVars, confVars>>
    /\ calls[r].pc = "new"
    /\ \A q \in RequestIds : q < r => calls[q].pc # "new"
    /\ \E raw \in Signals, source \in {"tradingview", "generic"} :
        LET parsed == ParseSignal(raw)
            arrived == [webhookLog EXCEPT
                          ![r].created = TRUE,
                          ![r].stoppedOnArrival = config.emergencyStop]
        IN  \/ /\ ~user.tradingActive
               /\ Return(r)
               /\ webhookLog' =
                    [webhookLog EXCEPT ![r].created = (source = "generic")]
               /\ UNCHANGED <<user, config, trades, connector>>
            \/ /\ user.tradingActive
               /\ ~parsed.valid
               /\ Reject(r, arrived, "Invalid signal format")
            \/ /\ user.tradingActive
               /\ parsed.valid
               /\ ~CoinEnabled(user, parsed.symbol)
               /\ Reject(r, arrived, "Trading not enabled")
            \/ /\ user.tradingActive
               /\ parsed.valid
               /\ CoinEnabled(user, parsed.symbol)
               /\ Goto(r, "count",
                       [NoCall EXCEPT !.signal = parsed, !.user = user])
               /\ webhookLog' = arrived
               /\ UNCHANGED <<user, config, trades, connector>>

\* the count of today's trades arrives: the daily trade limit and the
\* consecutive-loss check, up to the await of the aggregate
CheckTradeCount(r) ==
    /\ UNCHANGED <<normVars, confVars>>
    /\ calls[r].pc = "count"
    /\ LET u == Locals(r).user
       IN  \/ /\ TradeLimitReached(u, CountTodayTrades)
              /\ Reject(r, webhookLog, "Daily trade limit reached")
           \/ /\ ~TradeLimitReached(u, CountTodayTrades)
              /\ LossCutoffReached(u)
              /\ Reject(r, webhookLog, "Trading stopped due to consecutive losses")
           \/ /\ ~TradeLimitReached(u, CountTodayTrades)
              /\ ~LossCutoffReached(u)
              /\ Goto(r, "aggregate", Locals(r))
              /\ UNCHANGED <<user, config, trades, connector, webhookLog>>

\* the day's pnl arrives: the daily loss cap, then executeTrade up to its
\* first await (getCurrentPrice when the signal has no price, else
\* Trade.create)
CheckLossCap(r) ==
    /\ UNCHANGED <<normVars, confVars>>
    /\ calls[r].pc = "aggregate"
    /\ LET u == Locals(r).user
           signal == Locals(r).signal
       IN  \/ /\ LossCapReached(u, TodayPnL)
              /\ Reject(r, webhookLog, "Daily loss cap reached")
           \/ /\ ~LossCapReached(u, TodayPnL)
              /\ signal.price = 0
              /\ Goto(r, "price", Locals(r))
              /\ UNCHANGED <<user, config, trades, connector, webhookLog>>
           \/ /\ ~LossCapReached(u, TodayPnL)
              /\ signal.price # 0
              /\ Goto(r, "create", [Locals(r) EXCEPT !.price = signal.price])
              /\ UNCHANGED <<user, config, trades, connector, webhookLog>>

\* getCurrentPrice: the ticker request to the exchange; a failed request
\* gives the default price
GetCurrentPrice(r) ==
    /\ UNCHANGED <<normVars, confVars>>
    /\ calls[r].pc = "price"
    /\ \E fetched \in MarkPrices \cup {DefaultPrice} :
        Goto(r, "create", [Locals(r) EXCEPT !.price = fetched])
    /\ connector' = [connector EXCEPT ![r].priceFetches = @ + 1]
    /\ UNCHANGED <<user, config, trades, webhookLog>>

\* a selection by the connection alone
ConnectedExecution(u) == u.deltaConnected

\* executeTrade selects the exchange: not paper trading and Delta connected
LiveExecution(u) == ~u.paperTradingMode /\ u.deltaConnected

\* Trade.create (its post-save hook does nothing for a PENDING trade), then
\* the choice between the exchange and the simulated fill
CreateTrade(r) ==
    /\ UNCHANGED <<normVars, confVars>>
    /\ calls[r].pc = "create"
    /\ LET u == Locals(r).user
           doc == NewTrade(u, Locals(r).signal, Locals(r).price)
           id == Len(trades) + 1
       IN  \/ /\ ~TradeIsValid(doc)
              /\ Reject(r, webhookLog, "Trade validation failed")
           \/ /\ TradeIsValid(doc)
              /\ LiveExecution(u)
              /\ trades' = Append(trades, doc)
              /\ Goto(r, "submit", [Locals(r) EXCEPT !.trade = id])
              /\ UNCHANGED <<user, config, connector, webhookLog>>
           \/ /\ TradeIsValid(doc)
              /\ ~LiveExecution(u)
              /\ trades' = Append(trades, doc)
              /\ Goto(r, "save",
                      [Locals(r) EXCEPT !.trade = id,
                                        !.status = "FILLED",
                                        !.executedPrice = Locals(r).price])
              /\ UNCHANGED <<user, config, connector, webhookLog>>

\* executeDeltaOrder: the exchange accepts the order, or the call throws
ExecuteDeltaOrder(r) ==
    /\ UNCHANGED <<normVars, confVars>>
    /\ calls[r].pc = "submit"
    /\ \/ Goto(r, "save", [Locals(r) EXCEPT !.status = "PENDING",
                                           !.orderId = "order"])
       \/ Goto(r, "save", [Locals(r) EXCEPT !.status = "REJECTED"])
    /\ connector' = [connector EXCEPT ![r].orders = @ + 1]
    /\ UNCHANGED <<user, config, trades, webhookLog>>

\* the fields trade.save() writes
SavedTrade(t, locals) ==
    [t EXCEPT !.status = locals.status,
              !.executedPrice = locals.executedPrice,
              !.orderId = locals.orderId]

\* trade.save(): a FILLED trade starts the post-save hook's User.findById,
\* a PENDING trade is returned, a REJECTED trade rethrows the exchange error
SaveTrade(r) ==
    /\ UNCHANGED <<normVars, confVars>>
    /\ calls[r].pc = "save"
    /\ trades' = [trades EXCEPT
                    ![Locals(r).trade] = SavedTrade(@, Locals(r))]
    /\ \/ /\ Locals(r).status = "FILLED"
          /\ Goto(r, "hook", Locals(r))
          /\ UNCHANGED webhookLog
       \/ /\ Locals(r).status = "PENDING"
          /\ Complete(r)
       \/ /\ Locals(r).status = "REJECTED"
          /\ CatchBlock(r, webhookLog, "Failed to execute order on Delta Exchange")
    /\ UNCHANGED <<user, config, connector>>

\* the post-save hook's changes to the user it loaded, for a trade of pnl p
SettleUser(u, p) ==
    [u EXCEPT !.totalTrades = @ + 1,
              !.totalPnL = @ + p,
              !.dailyPnL = @ + p,
              !.winningTrades = IF p > 0 THEN @ + 1 ELSE @,
              !.consecutiveLosses = IF p > 0 THEN 0 ELSE @ + 1]

\* user.save() writes the paths the hook has changed, and only those
SaveModified(stored, loaded, changed) ==
    [f \in DOMAIN stored |->
        IF changed[f] # loaded[f] THEN changed[f] ELSE stored[f]]

\* the post-save hook: User.findById resolves
HookLoadUser(r) ==
    /\ UNCHANGED <<normVars, confVars>>
    /\ calls[r].pc = "hook"
    /\ Goto(r, "hookSave", [Locals(r) EXCEPT !.loaded = user])
    /\ UNCHANGED <<user, config, trades, connector, webhookLog>>

\* the post-save hook: user.save() resolves, executeTrade returns the trade
HookSaveUser(r) ==
    /\ UNCHANGED <<normVars, confVars>>
    /\ calls[r].pc = "hookSave"
    /\ LET loaded == Locals(r).loaded
           pnl == trades[Locals(r).trade].pnl
       IN  user' = SaveModified(user, loaded, SettleUser(loaded, pnl))
    /\ Complete(r)
    /\ UNCHANGED <<config, trades, connector>>

\* TradingConfig controller emergencyStop, the request giving no reason
EmergencyStop ==
    /\ UNCHANGED <<normVars, confVars>>
    /\ config' = [config EXCEPT
                    !.isActive = FALSE,
                    !.emergencyStop = TRUE,
                    !.emergencyStopReason = "Emergency stop activated",
                    !.capitalConservationMode = TRUE]
    /\ config' # config
    /\ UNCHANGED <<user, trades, calls, webhookLog, connector>>

\* handleDeltaWebhook, event order_filled for the order of request r: the
\* event is logged and no Trade is read or written.  fillEvents records that
\* the confirmation has arrived.
DeltaOrderFilled(r) ==
    /\ UNCHANGED <<normVars, confVars>>
    /\ webhookLog[r].tradeExecuted
    /\ trades[webhookLog[r].tradeId].orderId # ""
    /\ connector[r].fillEvents = 0
    /\ connector' = [connector EXCEPT ![r].fillEvents = 1]
    /\ UNCHANGED <<user, config, trades, calls, webhookLog>>

EngineNext ==
    \/ \E r \in RequestIds :
        \/ Receive(r)
        \/ CheckTradeCount(r)
        \/ CheckLossCap(r)
        \/ GetCurrentPrice(r)
        \/ CreateTrade(r)
        \/ ExecuteDeltaOrder(r)
        \/ SaveTrade(r)
        \/ HookLoadUser(r)
        \/ HookSaveUser(r)
    \/ EmergencyStop

----------------------------------------------------------------------------
(* The Trade post-save hook on its own: Trade documents of any status and  *)
(* pnl are saved, one save at a time.                                      *)

\* how many Trade documents are saved in one run of SpecSettle
MaxSaved == 3

\* how many settlements the user of SpecSettle receives before the saves of
\* existing documents stop
MaxSettled == 4

\* riskSettings.dailyLossCap of the user of SpecSettle (the schema default)
SettleLossCap == 1000

TradeStatuses == {"PENDING", "FILLED", "CANCELLED", "REJECTED"}

\* the pnl of the documents saved
SettlePnLs == {-950, -100, 0, 100}

\* tradeSchema.post('save') for document t, load and save taken together
PostSaveHook(u, t) ==
    IF t.status = "FILLED"
    THEN SaveModified(u, u, SettleUser(u, t.pnl))
    ELSE u

SettleInit ==
    /\ user = UserInit(SettleLossCap, TRUE, FALSE, 0)
    /\ config = NewConfig
    /\ trades = <<>>
    /\ calls = <<>>
    /\ webhookLog = <<>>
    /\ connector = <<>>

\* a Trade document of some status and pnl is saved
TradeSaved ==
    /\ UNCHANGED <<normVars, confVars>>
    /\ Len(trades) < MaxSaved
    /\ \E status \in TradeStatuses, pnl \in SettlePnLs :
        LET doc == [NewTrade(user, [NoSignal EXCEPT !.symbol = BTC,
                                                    !.side = "BUY"], 100)
                        EXCEPT !.status = status, !.pnl = pnl,
                               !.executedPrice = 100]
        IN  /\ trades' = Append(trades, doc)
            /\ user' = PostSaveHook(user, doc)
    /\ UNCHANGED <<config, calls, webhookLog, connector>>

\* a Trade document in the store is saved again as it is: the post-save hook
\* runs for every save
TradeResaved ==
    /\ UNCHANGED <<normVars, confVars>>
    /\ user.totalTrades < MaxSettled
    /\ \E i \in 1..Len(trades) : user' = PostSaveHook(user, trades[i])
    /\ UNCHANGED <<config, trades, calls, webhookLog, connector>>

SettleNext == TradeSaved \/ TradeResaved

----------------------------------------------------------------------------
(* Concurrent settlement: executeTrade's trade.save() of filled trades of  *)
(* one user and the post-save hooks they start, with either write failing. *)

\* how many filled trades are saved in one run of SpecHook
MaxFills == 3

\* the pnl of the filled trades
FillPnLs == {-100, 100}

FillIds == 1..MaxFills

HookInit ==
    /\ user = UserInit(SettleLossCap, TRUE, FALSE, 0)
    /\ config = NewConfig
    /\ trades = <<>>
    /\ calls = [r \in FillIds |-> [pc |-> "new", locals |-> NoCall]]
    /\ webhookLog = [r \in FillIds |-> NoLog]
    /\ connector = <<>>

\* trade.save() of a trade that executeTrade has set to FILLED: the document
\* is written and its post-save hook starts, or the write fails, the
\* document stays as Trade.create left it and the error reaches the catch
\* block of processWebhookSignal
FillSaved(r) ==
    /\ UNCHANGED <<normVars, confVars>>
    /\ calls[r].pc = "new"
    /\ r = Len(trades) + 1
    /\ LET created == NewTrade(user, [NoSignal EXCEPT !.symbol = BTC,
                                                      !.side = "BUY"], 100)
           arrived == [webhookLog EXCEPT ![r].created = TRUE]
       IN  \/ \E pnl \in FillPnLs :
                /\ trades' = Append(trades,
                                    [created EXCEPT !.status = "FILLED",
                                                    !.executedPrice = 100,
                                                    !.pnl = pnl])
                /\ Goto(r, "hook", [NoCall EXCEPT !.trade = r])
                /\ webhookLog' = arrived
           \/ /\ trades' = Append(trades, created)
              /\ CatchBlock(r, arrived, "Trade save failed")
    /\ UNCHANGED <<user, config, connector>>

\* the post-save hook: user.save() fails, the error reaches the catch block
HookSaveFails(r) ==
    /\ UNCHANGED <<normVars, confVars>>
    /\ calls[r].pc = "hookSave"
    /\ CatchBlock(r, webhookLog, "User save failed")
    /\ UNCHANGED <<user, config, trades, connector>>

HookNext ==
    \E r \in FillIds :
        \/ FillSaved(r)
        \/ HookLoadUser(r)
        \/ HookSaveUser(r)
        \/ HookSaveFails(r)

----------------------------------------------------------------------------
(* The daily loss cap before and after a trade: the guard of               *)
(* processWebhookSignal and TradingConfig.updateDailyPnL over the filled   *)
(* trades of one day.                                                      *)

\* how many filled trades the day of SpecGate has
MaxDayTrades == 3

\* TradingConfig.dailyLossLimit (the schema default)
DailyLossLimit == 1000

\* the pnl of the day's trades
GatePnLs == {-1000, -500, 500, 1000}

\* a FILLED Trade document of the user with that pnl
FilledTrade(u, pnl) ==
    [NewTrade(u, [NoSignal EXCEPT !.symbol = BTC, !.side = "BUY"], 100)
        EXCEPT !.status = "FILLED", !.executedPrice = 100, !.pnl = pnl]

\* the days of SpecGate: the trades filled so far
DayTrades ==
    UNION { [1..n -> { FilledTrade(UserInit(SettleLossCap, TRUE, FALSE, 0), pnl)
                        : pnl \in GatePnLs }] : n \in 0..MaxDayTrades }

\* the user after the post-save hooks of ts, one after the other
RECURSIVE SettleAll(_, _)
SettleAll(u, ts) ==
    IF ts = <<>> THEN u
    ELSE SettleAll(PostSaveHook(u, Head(ts)), Tail(ts))

\* Math.abs(this.dailyStats.currentPnL) >= this.dailyLossLimit
LossLimitReached(cfg) == Abs(cfg.currentPnL) >= cfg.dailyLossLimit

\* TradingConfig.updateDailyPnL(pnl, isWin) on document cfg
UpdateDailyPnL(cfg, pnl) ==
    LET counted == [cfg EXCEPT !.currentPnL = @ + pnl,
                               !.tradesCount = @ + 1]
    IN  IF LossLimitReached(counted)
        THEN [counted EXCEPT
                !.emergencyStop = TRUE,
                !.emergencyStopReason = "Daily loss limit reached",
                !.capitalConservationMode = TRUE]
        ELSE counted

\* TradingConfig.isTradingAllowed(), trading hours not enabled
IsTradingAllowed(cfg) ==
    /\ ~cfg.emergencyStop
    /\ cfg.isActive
    /\ ~LossLimitReached(cfg)

\* a signal of the user waits for the day's pnl; the TradingConfig has its
\* daily statistics at zero
GateInit ==
    /\ trades \in DayTrades
    /\ user = SettleAll(UserInit(SettleLossCap, TRUE, FALSE, 0), trades)
    /\ config = NewConfig @@ [dailyLossLimit |-> DailyLossLimit,
                              currentPnL |-> 0, tradesCount |-> 0]
    /\ calls = <<[pc |-> "aggregate",
                  locals |-> [NoCall EXCEPT
                                !.signal = [NoSignal EXCEPT
                                              !.valid = TRUE,
                                              !.symbol = BTC,
                                              !.side = "BUY",
                                              !.price = 100,
                                              !.type = "MARKET"],
                                !.user = user]]>>
    /\ webhookLog = <<[NoLog EXCEPT !.created = TRUE]>>
    /\ connector = <<>>

\* updateDailyPnL is given the next trade of the day
BreakerUpdate ==
    /\ UNCHANGED <<normVars, confVars>>
    /\ config.tradesCount < Len(trades)
    /\ config' = UpdateDailyPnL(config, trades[config.tradesCount + 1].pnl)
    /\ UNCHANGED <<user, trades, calls, webhookLog, connector>>

GateNext == CheckLossCap(1) \/ BreakerUpdate

----------------------------------------------------------------------------
(* One signal from payload to Trade: any payload of either format, any     *)
(* price and quantity, for a paper trading user whose guards all pass.     *)

\* the largest price a payload of SpecTrade carries
MaxPrice == 7

\* the largest riskSettings.maxTradeSizePercent of the user of SpecTrade
MaxPercent == 3

\* the action tokens of the payloads
ActionTokens == {"buy", "Buy", "SELL", "hold", "close", ""}

\* the quantities of the payloads, in hundredths; 0 is no quantity
PayloadQuantities == {0, 1, 100000}

\* the payloads of SpecTrade
Payloads ==
    [ format : {"text", "json"}, action : ActionTokens,
      symbol : {BTC \o USDT}, price : 0..MaxPrice,
      quantity : PayloadQuantities ]

TradeInit ==
    /\ \E pct \in 1..MaxPercent :
        user = [UserInit(SettleLossCap, TRUE, TRUE, 0)
                    EXCEPT !.maxTradeSizePercent = pct]
    /\ config = NewConfig
    /\ trades = <<>>
    /\ calls = <<[pc |-> "new", locals |-> NoCall]>>
    /\ \E raw \in Payloads : webhookLog = <<NoLog @@ [signal |-> raw]>>
    /\ connector = <<[priceFetches |-> 0, orders |-> 0, fillEvents |-> 0]>>

\* the webhook controller and processWebhookSignal up to its first await,
\* for the payload the WebhookLog of request r holds
ReceivePayload(r) ==
    /\ UNCHANGED <<normVars, confVars>>
    /\ calls[r].pc = "new"
    /\ LET parsed == ParseSignal(webhookLog[r].signal)
           arrived == [webhookLog EXCEPT ![r].created = TRUE]
       IN  \/ /\ ~parsed.valid
              /\ Reject(r, arrived, "Invalid signal format")
           \/ /\ parsed.valid
              /\ ~CoinEnabled(user, parsed.symbol)
              /\ Reject(r, arrived, "Trading not enabled")
           \/ /\ parsed.valid
              /\ CoinEnabled(user, parsed.symbol)
              /\ Goto(r, "count",
                      [NoCall EXCEPT !.signal = parsed, !.user = user])
              /\ webhookLog' = arrived
              /\ UNCHANGED <<user, config, trades, connector>>

TradeNext ==
    \/ ReceivePayload(1)
    \/ CheckTradeCount(1)
    \/ CheckLossCap(1)
    \/ GetCurrentPrice(1)
    \/ CreateTrade(1)
    \/ SaveTrade(1)
    \/ HookLoadUser(1)
    \/ HookSaveUser(1)

----------------------------------------------------------------------------
(* The AI path: processAISignal for the signals of one user, with the      *)
(* Strategy documents of the strategy the signals name.  The calls run     *)
(* concurrently: processAISignal is an async function and every await      *)
(* gives way to the other calls.                                           *)

\* how many AI signals are processed in one run
MaxAISignals == 3

AIIds == 1..MaxAISignals

\* the confidence below which processAISignal rejects a signal
ConfidenceCutoff == 30

\* user.aiStrategies of the modelled user: the schema defaults of the two
\* strategies the signals name
AIStrategies == [volatilityScanner |-> TRUE, optionChainAnalysis |-> FALSE]

\* Object.keys(user.aiStrategies).filter(key => user.aiStrategies[key])
EnabledStrategies(u) ==
    {key \in DOMAIN u.aiStrategies : u.aiStrategies[key]}

\* the AI signals of the model; each carries its price
AISignals ==
    { [NoSignal EXCEPT !.valid = TRUE, !.symbol = sym, !.side = "BUY",
                       !.price = 100, !.type = "MARKET"]
        @@ [strategy |-> name]
      : sym \in {BTC, DOGE}, name \in {"volatilityScanner"} }
    \cup
    { [NoSignal EXCEPT !.valid = TRUE, !.symbol = BTC, !.side = "BUY",
                       !.price = 100, !.type = "MARKET"]
        @@ [strategy |-> "optionChainAnalysis"] }

\* the locals of a call of processAISignal that has not started
NoAICall ==
    [ signal |-> NoSignal, doc |-> 0, found |-> NewStrategy,
      updated |-> NewStrategy, price |-> 0, trade |-> 0, status |-> "",
      executedPrice |-> 0, orderId |-> "", loaded |-> NoUser, error |-> "" ]

\* the Strategy document after n losing trades, one after the other
RECURSIVE AfterLosses(_)
AfterLosses(n) ==
    IF n = 0 THEN NewStrategy ELSE UpdatePerformance(AfterLosses(n - 1), 0)

\* the user is in paper or in live mode with or without carried losses; the
\* strategy has no document yet or one that a first losing trade has updated
AIInit ==
    /\ \E paper \in BOOLEAN, losses \in {0, LossCutoff} :
        user = UserInit(SettleLossCap, paper, TRUE, losses)
                  @@ [aiStrategies |-> AIStrategies]
    /\ strategy \in { <<>>, <<AfterLosses(1)>> }
    /\ config = NewConfig
    /\ trades = <<>>
    /\ calls = [r \in AIIds |-> [pc |-> "new", locals |-> NoAICall]]
    /\ webhookLog = <<>>
    /\ connector = <<>>

\* processAISignal throws: the error goes to the caller
AIThrow(r, msg) ==
    calls' = [calls EXCEPT ![r] =
                [pc |-> "done", locals |-> [NoAICall EXCEPT !.error = msg]]]

\* processAISignal returns the trade
AIReturn(r) ==
    calls' = [calls EXCEPT ![r] =
                [pc |-> "done",
                 locals |-> [NoAICall EXCEPT !.trade = Locals(r).trade]]]

\* strategy.confidenceScore < 30
ConfidenceTooLow(s) == s.confidenceScore < ConfidenceCutoff * ConfScale

\* processAISignal up to Strategy.findOne: the strategy has to be enabled
AIReceive(r) ==
    /\ UNCHANGED <<normVars, confVars>>
    /\ calls[r].pc = "new"
    /\ \A q \in AIIds : q < r => calls[q].pc # "new"
    /\ \E aiSignal \in AISignals :
        \/ /\ aiSignal.strategy \notin EnabledStrategies(user)
           /\ AIThrow(r, "AI strategy is not enabled")
        \/ /\ aiSignal.strategy \in EnabledStrategies(user)
           /\ Goto(r, "find", [NoAICall EXCEPT !.signal = aiSignal,
                                               !.loaded = user])
    /\ UNCHANGED <<user, config, trades, webhookLog, connector>>

\* the confidence check on the strategy document the call holds, then
\* executeTrade up to Trade.create
AICheckConfidence(r, doc, s) ==
    \/ /\ ConfidenceTooLow(s)
       /\ AIThrow(r, "Strategy confidence too low")
    \/ /\ ~ConfidenceTooLow(s)
       /\ Goto(r, "create", [Locals(r) EXCEPT !.doc = doc, !.found = s,
                                              !.price = Locals(r).signal.price])

\* Strategy.findOne resolves: the oldest document of the user and strategy
\* name, or null, and then Strategy.create is called
AIFindStrategy(r) ==
    /\ UNCHANGED <<normVars, confVars>>
    /\ calls[r].pc = "find"
    /\ \/ /\ strategy = <<>>
          /\ Goto(r, "createStrategy", Locals(r))
       \/ /\ strategy # <<>>
          /\ AICheckConfidence(r, 1, strategy[1])
    /\ UNCHANGED <<user, config, trades, webhookLog, connector>>

\* Strategy.create resolves: a new document with confidenceScore 50; the
\* index on userId and strategyName is not unique
AICreateStrategy(r) ==
    /\ UNCHANGED normVars
    /\ calls[r].pc = "createStrategy"
    /\ strategy' = Append(strategy, NewStrategy)
    /\ AICheckConfidence(r, Len(strategy) + 1, NewStrategy)
    /\ UNCHANGED <<user, config, trades, webhookLog, connector>>

\* executeTrade: Trade.create resolves, for the user the caller has passed
AICreateTrade(r) ==
    /\ UNCHANGED <<normVars, confVars>>
    /\ calls[r].pc = "create"
    /\ LET u == Locals(r).loaded
           doc == NewTrade(u, Locals(r).signal, Locals(r).price)
           id == Len(trades) + 1
       IN  /\ trades' = Append(trades, doc)
           /\ \/ /\ LiveExecution(u)
                 /\ Goto(r, "submit", [Locals(r) EXCEPT !.trade = id])
              \/ /\ ~LiveExecution(u)
                 /\ Goto(r, "save",
                         [Locals(r) EXCEPT !.trade = id,
                                           !.status = "FILLED",
                                           !.executedPrice = Locals(r).price])
    /\ UNCHANGED <<user, config, webhookLog, connector>>

\* executeTrade: executeDeltaOrder resolves or throws
AIExecuteDeltaOrder(r) ==
    /\ UNCHANGED <<normVars, confVars>>
    /\ calls[r].pc = "submit"
    /\ \/ Goto(r, "save", [Locals(r) EXCEPT !.status = "PENDING",
                                           !.orderId = "order"])
       \/ Goto(r, "save", [Locals(r) EXCEPT !.status = "REJECTED"])
    /\ UNCHANGED <<user, config, trades, webhookLog, connector>>

\* executeTrade has returned the trade: strategy.updatePerformance(trade),
\* up to strategy.save()
AIUpdatePerformance(r, t) ==
    Goto(r, "saveStrategy",
         [Locals(r) EXCEPT !.updated = UpdatePerformance(Locals(r).found, t.pnl)])

\* executeTrade: trade.save() resolves.  A REJECTED trade rethrows the
\* exchange error, a FILLED trade starts its post-save hook, a PENDING trade is
\* returned to processAISignal.
AISaveTrade(r) ==
    /\ UNCHANGED <<normVars, confVars>>
    /\ calls[r].pc = "save"
    /\ trades' = [trades EXCEPT
                    ![Locals(r).trade] = SavedTrade(@, Locals(r))]
    /\ \/ /\ Locals(r).status = "FILLED"
          /\ Goto(r, "hook", Locals(r))
       \/ /\ Locals(r).status = "PENDING"
          /\ AIUpdatePerformance(r, trades'[Locals(r).trade])
       \/ /\ Locals(r).status = "REJECTED"
          /\ AIThrow(r, "Failed to execute order on Delta Exchange")
    /\ UNCHANGED <<user, config, webhookLog, connector>>

\* the post-save hook: user.save() resolves, executeTrade returns the FILLED
\* trade to processAISignal
AIHookSaveUser(r) ==
    /\ UNCHANGED <<normVars, confVars>>
    /\ calls[r].pc = "hookSave"
    /\ LET loaded == Locals(r).loaded
           pnl == trades[Locals(r).trade].pnl
       IN  user' = SaveModified(user, loaded, SettleUser(loaded, pnl))
    /\ AIUpdatePerformance(r, trades[Locals(r).trade])
    /\ UNCHANGED <<config, trades, webhookLog, connector>>

\* strategy.save() resolves: the paths updatePerformance has changed are
\* written to the document, and the trade is returned
AISaveStrategy(r) ==
    /\ UNCHANGED normVars
    /\ calls[r].pc = "saveStrategy"
    /\ strategy' = [strategy EXCEPT
                      ![Locals(r).doc] =
                          SaveModified(@, Locals(r).found, Locals(r).updated)]
    /\ AIReturn(r)
    /\ UNCHANGED <<user, config, trades, webhookLog, connector>>

AINext ==
    \E r \in AIIds :
        \/ AIReceive(r)
        \/ AIFindStrategy(r)
        \/ AICreateStrategy(r)
        \/ AICreateTrade(r)
        \/ AIExecuteDeltaOrder(r)
        \/ AISaveTrade(r)
        \/ HookLoadUser(r)
        \/ AIHookSaveUser(r)
        \/ AISaveStrategy(r)

----------------------------------------------------------------------------
(* The user's trading controls: the requests start, stop, emergency-stop   *)
(* and reset-daily of the trading controller on the user's TradingConfig,  *)
(* and TradingConfig.updateDailyPnL for the trades of the day.  The         *)
(* requests of one user are handled one after the other.  calls holds the  *)
(* last request and its HTTP status, the request before it, and who raised *)
(* the emergency stop last.                                                *)

\* the reason texts a stop request carries; "" is a request without reason
ControlReasons == {"", "Daily loss limit reached", "maintenance"}

\* the response to a request; by tells who has raised the emergency stop
Respond(request, status, by) ==
    calls' = [request |-> request, status |-> status,
              previous |-> calls.request, stoppedBy |-> by]

ControlInit ==
    /\ \E key \in {"", "key"} :
        user = UserInit(SettleLossCap, TRUE, FALSE, 0)
                  @@ [deltaApiKey |-> key, deltaApiSecret |-> key]
    /\ config = NewConfig @@ [dailyLossLimit |-> DailyLossLimit,
                              currentPnL |-> 0, tradesCount |-> 0]
    /\ trades = <<>>
    /\ calls = [request |-> "", status |-> 0, previous |-> "",
                stoppedBy |-> ""]
    /\ webhookLog = <<>>
    /\ connector = <<>>

\* controller startTrading
StartTrading ==
    /\ UNCHANGED <<normVars, confVars>>
    /\ \/ /\ user.deltaApiKey = "" \/ user.deltaApiSecret = ""
          /\ Respond("start", 400, calls.stoppedBy)
          /\ UNCHANGED config
       \/ /\ user.deltaApiKey # "" /\ user.deltaApiSecret # ""
          /\ ~IsTradingAllowed(config)
          /\ Respond("start", 400, calls.stoppedBy)
          /\ UNCHANGED config
       \/ /\ user.deltaApiKey # "" /\ user.deltaApiSecret # ""
          /\ IsTradingAllowed(config)
          /\ config' = [config EXCEPT !.isActive = TRUE,
                                      !.emergencyStop = FALSE,
                                      !.emergencyStopReason = ""]
          /\ Respond("start", 200, "")
    /\ UNCHANGED <<user, trades, webhookLog, connector>>

\* controller stopTrading
StopTrading ==
    /\ UNCHANGED <<normVars, confVars>>
    /\ \E reason \in ControlReasons :
        config' = [config EXCEPT
                     !.isActive = FALSE,
                     !.emergencyStop = TRUE,
                     !.emergencyStopReason =
                         IF reason # "" THEN reason
                         ELSE "Manual stop by user"]
    /\ Respond("stop", 200, "user")
    /\ UNCHANGED <<user, trades, webhookLog, connector>>

\* controller emergencyStop
EmergencyStopRequest ==
    /\ UNCHANGED <<normVars, confVars>>
    /\ \E reason \in ControlReasons :
        config' = [config EXCEPT
                     !.isActive = FALSE,
                     !.emergencyStop = TRUE,
                     !.emergencyStopReason =
                         IF reason # "" THEN reason
                         ELSE "Emergency stop activated",
                     !.capitalConservationMode = TRUE]
    /\ Respond("emergencyStop", 200, "user")
    /\ UNCHANGED <<user, trades, webhookLog, connector>>

\* a reset that leaves the day's trade count
ResetKeepingCount(cfg) == [cfg EXCEPT !.currentPnL = 0]

\* TradingConfig.resetDailyStats() on document cfg, for the statistics the
\* model carries
ResetDailyStats(cfg) == [cfg EXCEPT !.currentPnL = 0, !.tradesCount = 0]

\* controller resetDailyStats on document cfg: the statistics are reset and
\* a stop whose reason is the circuit breaker's text is cleared
ResetRequest(cfg) ==
    LET reset == ResetDailyStats(cfg)
    IN  IF reset.emergencyStopReason = "Daily loss limit reached"
        THEN [reset EXCEPT !.emergencyStop = FALSE,
                           !.emergencyStopReason = "",
                           !.capitalConservationMode = FALSE]
        ELSE reset

\* controller resetDailyStats
ResetDaily ==
    /\ UNCHANGED <<normVars, confVars>>
    /\ config' = ResetRequest(config)
    /\ Respond("reset", 200, calls.stoppedBy)
    /\ UNCHANGED <<user, trades, webhookLog, connector>>

\* TradingConfig.updateDailyPnL for a trade of the day
DailyPnLUpdated ==
    /\ UNCHANGED <<normVars, confVars>>
    /\ config.tradesCount < MaxDayTrades
    /\ \E pnl \in GatePnLs :
        /\ config' = UpdateDailyPnL(config, pnl)
        /\ Respond("updateDailyPnL", 0,
                   IF LossLimitReached(config') THEN "breaker"
                   ELSE calls.stoppedBy)
    /\ UNCHANGED <<user, trades, webhookLog, connector>>

ControlNext ==
    \/ StartTrading
    \/ StopTrading
    \/ EmergencyStopRequest
    \/ ResetDaily
    \/ DailyPnLUpdated

----------------------------------------------------------------------------
(* A burst of webhook signals of one paper trading user whose daily trade  *)
(* limit admits them all, together with the admin's controls over          *)
(* user.tradingActive.                                                     *)

\* how many webhook requests arrive in one burst
MaxBurst == 3

BurstIds == 1..MaxBurst

BurstInit ==
    /\ user = [UserInit(SettleLossCap, TRUE, TRUE, 0)
                  EXCEPT !.maxTradeCountPerDay = MaxBurst]
    /\ config = NewConfig
    /\ trades = <<>>
    /\ calls = [r \in BurstIds |-> [pc |-> "new", locals |-> NoCall]]
    /\ webhookLog = [r \in BurstIds |-> NoLog]
    /\ connector = [r \in BurstIds |->
                        [priceFetches |-> 0, orders |-> 0, fillEvents |-> 0]]

\* adminController emergencyStopAll: User.updateMany({}, {tradingActive: false})
EmergencyStopAll ==
    /\ UNCHANGED <<normVars, confVars>>
    /\ user.tradingActive
    /\ user' = [user EXCEPT !.tradingActive = FALSE]
    /\ UNCHANGED <<config, trades, calls, webhookLog, connector>>

\* adminController toggleUserTrading turns the user's trading back on
ToggleUserTrading ==
    /\ UNCHANGED <<normVars, confVars>>
    /\ ~user.tradingActive
    /\ user' = [user EXCEPT !.tradingActive = ~@]
    /\ UNCHANGED <<config, trades, calls, webhookLog, connector>>

BurstNext ==
    \/ \E r \in BurstIds :
        \/ Receive(r)
        \/ CheckTradeCount(r)
        \/ CheckLossCap(r)
        \/ GetCurrentPrice(r)
        \/ CreateTrade(r)
        \/ SaveTrade(r)
        \/ HookLoadUser(r)
        \/ HookSaveUser(r)
    \/ EmergencyStopAll
    \/ ToggleUserTrading

----------------------------------------------------------------------------
(* Specifications                                                          *)

InitNorm == NormInit /\ ConfIdle /\ EngineIdle

SpecNorm == InitNorm /\ [][NormNext]_vars

InitConf == ConfInit /\ NormIdle /\ EngineIdle

SpecConf == InitConf /\ [][ConfNext]_vars

InitSettle == SettleInit /\ NormIdle /\ ConfIdle

SpecSettle == InitSettle /\ [][SettleNext]_vars

InitHook == HookInit /\ NormIdle /\ ConfIdle

SpecHook == InitHook /\ [][HookNext]_vars

InitGate == GateInit /\ NormIdle /\ ConfIdle

SpecGate == InitGate /\ [][GateNext]_vars

InitTrade == TradeInit /\ NormIdle /\ ConfIdle

SpecTrade == InitTrade /\ [][TradeNext]_vars

InitAI == AIInit /\ NormIdle

SpecAI == InitAI /\ [][AINext]_vars

InitControl == ControlInit /\ NormIdle /\ ConfIdle

SpecControl == InitControl /\ [][ControlNext]_vars

InitBurst == BurstInit /\ NormIdle /\ ConfIdle

SpecBurst == InitBurst /\ [][BurstNext]_vars

Init == EngineInit /\ NormIdle /\ ConfIdle

Next == EngineNext

Spec == Init /\ [][Next]_vars

\* the engine together with the exchange's fill confirmations; every step
\* that can be taken is taken in the end, as the event loop runs each ready
\* callback and the exchange delivers its events
LiveNext ==
    \/ EngineNext
    \/ \E r \in RequestIds : DeltaOrderFilled(r)

SpecLive == Init /\ [][LiveNext]_vars /\ WF_vars(LiveNext)

----------------------------------------------------------------------------
(* Properties                                                              *)

\* the messages of the guards of processWebhookSignal
InvalidSignal == "Invalid signal format"
CoinDisabled == "Trading not enabled"
DailyTradeLimitExceeded == "Daily trade limit reached"
ConsecutiveLossCutoff == "Trading stopped due to consecutive losses"
DailyLossCapReached == "Daily loss cap reached"

TradeInvalid == "Trade validation failed"

GuardMessages ==
    { InvalidSignal, CoinDisabled, DailyTradeLimitExceeded,
      ConsecutiveLossCutoff, DailyLossCapReached, TradeInvalid }

\* the handler of request r has created a Trade document
HasTrade(r) == Locals(r).trade # 0 \/ webhookLog[r].tradeId # 0

\* C1: the number of Trade documents created for the user within the day
\* never exceeds maxTradeCountPerDay, whatever the interleaving of requests.
C1_TradesWithinDailyLimit ==
    Len(trades) <= user.maxTradeCountPerDay

\* C2: a signal that arrives while emergencyStop is set is not admitted: its
\* handler creates no Trade document.
C2_NoTradeWhileStopped ==
    \A r \in RequestIds :
        webhookLog[r].stoppedOnArrival => ~HasTrade(r)

\* C3: after a fill has been added to the user's daily PnL, a daily PnL
\* whose magnitude is at least dailyLossCap means that emergencyStop is set
\* with reason "Daily loss limit reached" and capitalConservationMode is set.
C3_LossCapTripsStop ==
    (/\ trades # <<>>
     /\ trades[Len(trades)].status = "FILLED"
     /\ Abs(user.dailyPnL) >= user.dailyLossCap)
    => /\ config.emergencyStop
       /\ config.emergencyStopReason = "Daily loss limit reached"
       /\ config.capitalConservationMode

\* C4: after every update the confidence score lies within [5, 95].
C4_ConfidenceBounded ==
    /\ strategy.confidenceScore >= MinConfidence * ConfScale
    /\ strategy.confidenceScore <= MaxConfidence * ConfScale

\* C4 witness: three or more losses in a row have brought the score to the
\* floor, where the penalty applies.
C4_Witness ==
    /\ strategy.totalTrades > 0
    /\ strategy.consecutiveLosses >= PenaltyLosses
    /\ strategy.confidenceScore = MinConfidence * ConfScale

\* C5: normalisation is idempotent: normalising a normalised symbol changes
\* nothing, normalize(normalize(s)) = normalize(s).
C5_NormalizeIdempotent ==
    normCount = 1 => NormalizeSymbol(normSymbol) = normSymbol

C7_PaperFillWithoutConnector ==
    \A r \in RequestIds :
        (webhookLog[r].tradeExecuted /\ trades[webhookLog[r].tradeId].paperTrade)
        => /\ trades[webhookLog[r].tradeId].status = "FILLED"
           /\ trades[webhookLog[r].tradeId].executedPrice
                = trades[webhookLog[r].tradeId].price
           /\ connector[r].orders = 0
           /\ connector[r].priceFetches = 0

\* C7 amended: in paper trading mode the handler of an admitted signal
\* submits no order; it fetches the price from the exchange once exactly when
\* the signal carries no price and never otherwise; the Trade is FILLED by
\* the handler itself with executedPrice equal to the Trade's price, which is
\* the signal's price when it carries one.
C7_PaperFillWithoutOrder ==
    \A r \in RequestIds :
        /\ (calls[r].pc \notin {"new", "done"}
            /\ Locals(r).user.paperTradingMode)
           => /\ connector[r].orders = 0
              /\ calls[r].pc # "submit"
              /\ connector[r].priceFetches =
                    IF /\ Locals(r).signal.price = 0
                       /\ calls[r].pc \in {"create", "save", "hook", "hookSave"}
                    THEN 1 ELSE 0
              /\ calls[r].pc \in {"save", "hook", "hookSave"}
                    => /\ Locals(r).status = "FILLED"
                       /\ Locals(r).executedPrice = trades[Locals(r).trade].price
                       /\ Locals(r).signal.price # 0
                            => trades[Locals(r).trade].price
                                 = Locals(r).signal.price
        /\ (webhookLog[r].tradeExecuted
            /\ trades[webhookLog[r].tradeId].paperTrade)
           => /\ trades[webhookLog[r].tradeId].status = "FILLED"
              /\ trades[webhookLog[r].tradeId].executedPrice
                   = trades[webhookLog[r].tradeId].price
              /\ connector[r].orders = 0
              /\ connector[r].priceFetches <= 1
              /\ connector[r].priceFetches = 1
                   => trades[webhookLog[r].tradeId].price
                        \in MarkPrices \cup {DefaultPrice}

\* C7 witness: paper trades of a priced and of an unpriced signal are filled,
\* the second after one price fetch.
C7_Witness ==
    \E r, q \in RequestIds :
        /\ webhookLog[r].tradeExecuted
        /\ webhookLog[q].tradeExecuted
        /\ trades[webhookLog[r].tradeId].paperTrade
        /\ trades[webhookLog[r].tradeId].status = "FILLED"
        /\ trades[webhookLog[q].tradeId].status = "FILLED"
        /\ user.deltaConnected
        /\ connector[r].priceFetches = 0
        /\ connector[q].priceFetches = 1

\* C8: the rejection reason is that of the earliest failing guard in the
\* order CoinDisabled, EmergencyStopActive, DailyTradeLimitExceeded,
\* ConsecutiveLossCutoff, DailyLossCapReached, TradingHoursClosed,
\* ConfidenceBelowThreshold, and a signal is admitted only if all pass: a
\* processed signal that arrived while emergencyStop was set was rejected,
\* and for no guard later than EmergencyStopActive.
C8_EarliestGuardDecides ==
    \A r \in RequestIds :
        (webhookLog[r].processed /\ webhookLog[r].stoppedOnArrival)
        => /\ ~webhookLog[r].tradeExecuted
           /\ webhookLog[r].processingError
                \notin { DailyTradeLimitExceeded, ConsecutiveLossCutoff,
                         DailyLossCapReached }

\* C9: a signal that is invalid or rejected by a guard leaves the user's
\* risk state, the TradingConfig and the strategy state as they were and
\* creates no Trade document, neither in the rejecting step nor before it.
C9_RejectionChangesNothing ==
    [][\A r \in RequestIds :
        (/\ webhookLog[r].processingError = ""
         /\ webhookLog'[r].processingError \in GuardMessages)
        => /\ user' = user
           /\ config' = config
           /\ strategy' = strategy
           /\ trades' = trades
           /\ Locals(r).trade = 0
           /\ ~webhookLog'[r].tradeExecuted
           /\ webhookLog'[r].tradeId = 0]_vars

\* C9 witness: one signal was rejected as invalid and another by a guard.
C9_Witness ==
    \E r, q \in RequestIds :
        /\ webhookLog[r].processingError = InvalidSignal
        /\ webhookLog[q].processingError \in GuardMessages \ {InvalidSignal}

\* C10: an order submission that fails leaves the Trade REJECTED and
\* dailyPnL, consecutiveLosses and emergencyStop as they were; the REJECTED
\* Trade stays on record and counts against the daily trade limit.
C10_FailedSubmissionRejected ==
    [][\A r \in RequestIds :
        /\ (/\ calls[r].pc = "submit"
            /\ calls'[r].pc = "save"
            /\ calls'[r].locals.status = "REJECTED")
           => user' = user /\ config' = config /\ trades' = trades
        /\ (/\ calls[r].pc = "save"
            /\ Locals(r).status = "REJECTED"
            /\ calls'[r].pc # "save")
           => /\ trades'[Locals(r).trade].status = "REJECTED"
              /\ Len(trades') = Len(trades)
              /\ user' = user
              /\ config' = config
              /\ calls'[r].pc = "done"
              /\ ~webhookLog'[r].tradeExecuted
        /\ (/\ calls[r].pc = "count"
            /\ calls'[r].pc # "count"
            /\ Len(trades) >= Locals(r).user.maxTradeCountPerDay
            /\ \A i \in 1..Len(trades) : trades[i].status = "REJECTED")
           => /\ webhookLog'[r].processingError = DailyTradeLimitExceeded
              /\ trades' = trades]_vars

\* C10 witness: every trade of the day was rejected by the exchange, and the
\* next signal was turned away by the daily trade limit.
C10_Witness ==
    /\ Len(trades) = user.maxTradeCountPerDay
    /\ \A i \in 1..Len(trades) : trades[i].status = "REJECTED"
    /\ user.dailyPnL = 0
    /\ ~config.emergencyStop
    /\ \E r \in RequestIds :
        webhookLog[r].processingError = DailyTradeLimitExceeded

\* C11: every update follows the reference rule with learning rate 0.1: a
\* win gives min(95, c + 0.1 * (100 - c)), a loss max(5, c - 0.1 * c), and
\* then max(5, 0.8 * c') when the strategy's consecutive losses are 3 or
\* more; from 50 a win gives 55, and from 55 a loss gives 49.5.
C11_ReferenceRule ==
    [][LET c == strategy.confidenceScore
           isWin == strategy'.winningTrades > strategy.winningTrades
           step == IF isWin
                   THEN Min(95 * ConfScale, c + (100 * ConfScale - c) \div 10)
                   ELSE Max(5 * ConfScale, c - c \div 10)
           penalized == Max(5 * ConfScale, (step * 8) \div 10)
       IN  /\ strategy'.confidenceScore =
                IF strategy'.consecutiveLosses >= 3 THEN penalized ELSE step
           /\ (c = 50 * ConfScale /\ isWin)
                => strategy'.confidenceScore = 55 * ConfScale
           /\ (c = 55 * ConfScale /\ ~isWin /\ strategy'.consecutiveLosses < 3)
                => 10 * strategy'.confidenceScore = 495 * ConfScale]_vars

\* C11 witness: one win from 50 and then one loss from 55 have given 49.5.
C11_Witness ==
    /\ strategy.totalTrades = 2
    /\ strategy.winningTrades = 1
    /\ strategy.consecutiveLosses = 1
    /\ 10 * strategy.confidenceScore = 495 * ConfScale

\* the number of FILLED documents among ts
RECURSIVE CountFilled(_)
CountFilled(ts) ==
    IF ts = <<>> THEN 0
    ELSE (IF Head(ts).status = "FILLED" THEN 1 ELSE 0) + CountFilled(Tail(ts))

\* C12: the risk-state update is applied exactly once per Trade that has
\* become FILLED, never for a Trade of another status and never again when
\* a FILLED Trade is saved again: the user's totalTrades is the number of
\* FILLED trades and dailyPnL the sum of their pnl.
C12_SettledOncePerFill ==
    /\ user.totalTrades = CountFilled(trades)
    /\ user.dailyPnL = SumFilledPnL(trades)

\* the orders in which n settlements can be serialised
SerialOrders(n) ==
    { f \in [1..n -> 1..n] : \A a, b \in 1..n : a # b => f[a] # f[b] }

\* the trailing run of non-winning trades of ts taken in order f
RECURSIVE TrailingLosses(_, _, _)
TrailingLosses(ts, f, n) ==
    IF n = 0 \/ ts[f[n]].pnl > 0 THEN 0
    ELSE 1 + TrailingLosses(ts, f, n - 1)

\* C13: when the settlements of a user's fills have all completed, in
\* whatever interleaving, dailyPnL is the sum of the pnl of the filled
\* trades, totalTrades their number, and consecutiveLosses the trailing run
\* of non-winning fills of some serial order.
C13_SettlementsLinearized ==
    (\A i \in 1..Len(trades) : webhookLog[i].tradeExecuted)
    => /\ user.dailyPnL = SumFilledPnL(trades)
       /\ user.totalTrades = CountFilled(trades)
       /\ \E f \in SerialOrders(Len(trades)) :
            user.consecutiveLosses = TrailingLosses(trades, f, Len(trades))

\* C14: settlement is all-or-nothing, also after a failure of either write:
\* once the handler of a trade has ended, the Trade is recorded as FILLED
\* exactly if the write that adds its pnl to the user was committed.
C14_SettlementAllOrNothing ==
    \A i \in 1..Len(trades) :
        calls[i].pc = "done"
        => (trades[i].status = "FILLED" <=> webhookLog[i].tradeExecuted)

TerminalStatuses == {"FILLED", "CANCELLED", "REJECTED"}

\* the fill confirmation of Trade i has arrived
FillConfirmed(i) ==
    \E r \in RequestIds :
        webhookLog[r].tradeId = i /\ connector[r].fillEvents > 0

\* C15: every live Trade left PENDING reaches a terminal status in the end,
\* and once its fill confirmation has arrived it becomes FILLED.
C15_PendingReachesTerminal ==
    \A i \in 1..MaxRequests :
        /\ (i <= Len(trades) /\ trades[i].status = "PENDING"
                /\ trades[i].orderId # "")
            ~> (i <= Len(trades) /\ trades[i].status \in TerminalStatuses)
        /\ (i <= Len(trades) /\ trades[i].status = "PENDING"
                /\ FillConfirmed(i))
            ~> (i <= Len(trades) /\ trades[i].status = "FILLED")

\* C16: a Trade is created PENDING, leaves PENDING only for FILLED,
\* CANCELLED or REJECTED, and once its status is one of these no step
\* changes it; no Trade document is removed.
C16_StatusOneWay ==
    [][/\ Len(trades') >= Len(trades)
       /\ \A i \in 1..Len(trades') :
            IF i > Len(trades)
            THEN trades'[i].status = "PENDING"
            ELSE /\ trades[i].status \in TerminalStatuses
                    => trades'[i].status = trades[i].status
                 /\ trades'[i].status \in {"PENDING"} \cup TerminalStatuses]_vars

\* C16 witness: a Trade was filled, and a later signal has been processed
\* to its end with the Trade still FILLED.
C16_Witness ==
    /\ \A r \in RequestIds : calls[r].pc = "done"
    /\ \E i \in 1..Len(trades) : trades[i].status = "FILLED"
    /\ \E r \in RequestIds :
        webhookLog[r].processingError = DailyTradeLimitExceeded

\* C17: the loss-cap guard rejects the signal whenever the magnitude of the
\* day's pnl is at least dailyLossCap, for a profit as for a loss, and it
\* decides as the breaker's test does on the same day's pnl.
C17_LossCapBothSigns ==
    calls[1].pc # "aggregate"
    => /\ Abs(TodayPnL) >= user.dailyLossCap
            => webhookLog[1].processingError = DailyLossCapReached
       /\ config.tradesCount = Len(trades)
            => (webhookLog[1].processingError = DailyLossCapReached
                    <=> LossLimitReached(config))

\* the payload of the signal of SpecTrade carries a quantity the parser reads
ExplicitQuantity ==
    webhookLog[1].signal.format = "json" /\ webhookLog[1].signal.quantity # 0

\* the sizer's nominal allocation, capital * maxTradeSizePercent / 100, times
\* 100: quantities are hundredths
NominalAllocation == AccountBalance * user.maxTradeSizePercent

\* C18: the computed quantity is the nominal allocation divided by the price
\* and truncated to hundredths: quantity * price never exceeds the
\* allocation and the quantity is within one hundredth of the quotient.
C18_QuantityTruncated ==
    (trades # <<>> /\ ~ExplicitQuantity)
    => /\ trades[1].quantity * trades[1].price <= NominalAllocation
       /\ NominalAllocation - trades[1].quantity * trades[1].price
            < trades[1].price
       /\ trades[1].quantity >= 0

\* C18 witness: a filled Trade whose computed quantity was truncated.
C18_Witness ==
    /\ trades # <<>>
    /\ ~ExplicitQuantity
    /\ trades[1].status = "FILLED"
    /\ trades[1].quantity * trades[1].price < NominalAllocation

\* C19: the quantity of a Trade is the signal's explicit quantity capped at
\* the sizer's bound: quantity * price never exceeds capital *
\* maxTradeSizePercent, whatever the signal asked for.
C19_ExplicitQuantityCapped ==
    trades # <<>>
    => /\ trades[1].quantity * trades[1].price <= NominalAllocation
       /\ ExplicitQuantity
            => trades[1].quantity =
                 Min(webhookLog[1].signal.quantity,
                     NominalAllocation \div trades[1].price)

\* C20: in both formats the action token maps to BUY or SELL whatever its
\* case, and a signal with any other token is an invalid signal: it never
\* results in a Trade and is rejected as "Invalid signal format".
C20_OtherTokensInvalid ==
    LET token == ToUpperCase(webhookLog[1].signal.action)
    IN  /\ trades # <<>> => (token \in {"BUY", "SELL"} /\ trades[1].side = token)
        /\ (token \notin {"BUY", "SELL"} /\ webhookLog[1].processed)
            => webhookLog[1].processingError = InvalidSignal

\* C21: the execution variant is selected by the paper flag alone: the Trade
\* of a user whose paperTradingMode is false is submitted to the exchange and
\* is PENDING or REJECTED, never filled by the engine's simulation.
C21_LiveNeverSimulated ==
    \A i \in 1..Len(trades) :
        ~trades[i].paperTrade => trades[i].status \in {"PENDING", "REJECTED"}

\* C22: the state of a strategy is updated only by a FILLED Trade, after the
\* trade's settlement: a Trade that is PENDING or REJECTED never changes any
\* field of a Strategy document.
C22_OnlyFillsUpdateStrategy ==
    [][\A d \in 1..Len(strategy) :
        strategy'[d] # strategy[d]
        => \E r \in AIIds :
            /\ calls[r].pc = "saveStrategy"
            /\ calls'[r].pc = "done"
            /\ Locals(r).doc = d
            /\ trades[Locals(r).trade].status = "FILLED"]_vars

\* a risk guard of the webhook path would turn a signal of that symbol away:
\* the coin is not enabled, the daily trade count is reached, the user has
\* three or more consecutive losses, or the daily loss cap is reached
RiskGuardFails(u, symbol) ==
    \/ ~CoinEnabled(u, symbol)
    \/ TradeLimitReached(u, CountTodayTrades)
    \/ LossCutoffReached(u)
    \/ LossCapReached(u, TodayPnL)

\* C23: processAISignal creates no Trade for a user for whom a risk guard
\* fails when the Trade would be created.
C23_AIPathGuarded ==
    [][\A r \in AIIds :
        (calls[r].pc = "create" /\ Len(trades') > Len(trades))
        => ~RiskGuardFails(user, Locals(r).signal.symbol)]_vars

\* C26: there is at most one Strategy document per user and strategy name,
\* whatever the interleaving of the first signals, and it was created with
\* confidence 50.
C26_OneStrategyPerName ==
    /\ Len(strategy) <= 1
    /\ \A d \in 1..Len(strategy) :
        strategy[d].totalTrades = 0
        => strategy[d].confidenceScore = DefaultConfidence * ConfScale

\* C30: a confidence below 30 is absorbing on the AI path: once a Strategy
\* document has a score below 30, neither the score nor any counter of the
\* document changes again.
C30_LowConfidenceAbsorbing ==
    [][\A d \in 1..Len(strategy) :
        ConfidenceTooLow(strategy[d]) => strategy'[d] = strategy[d]]_vars

\* C24: the daily reset is zeroing and idempotent: after a reset the daily
\* PnL and the trade count are 0, and a second reset with no trade in between
\* leaves daily PnL, trade count, emergencyStop, emergencyStopReason and
\* capitalConservationMode as the first reset left them.
C24_ResetIdempotent ==
    calls.request = "reset"
    => /\ config.currentPnL = 0
       /\ config.tradesCount = 0
       /\ ResetRequest(config) = config

\* C24 witness: a reset after the day's trades had tripped the circuit
\* breaker: the statistics are zero and the breaker's stop is cleared.
C24_Witness ==
    /\ calls.request = "reset"
    /\ calls.previous = "updateDailyPnL"
    /\ calls.stoppedBy = "breaker"
    /\ ~config.emergencyStop
    /\ config.tradesCount = 0

\* C25: an emergency stop raised by the user's stopTrading or emergencyStop
\* request, whatever reason the request gave, is still set after a daily
\* reset.
C25_UserStopSurvivesReset ==
    (calls.request = "reset" /\ calls.stoppedBy = "user")
    => config.emergencyStop

\* C27: a startTrading request that follows the user's stopTrading or
\* emergencyStop request, by a user with API keys and with the daily PnL
\* under the limit, succeeds and leaves isActive set and emergencyStop
\* cleared.
C27_StopReversible ==
    (/\ calls.request = "start"
     /\ calls.previous \in {"stop", "emergencyStop"}
     /\ user.deltaApiKey # "" /\ user.deltaApiSecret # ""
     /\ ~LossLimitReached(config))
    => /\ calls.status = 200
       /\ config.isActive
       /\ ~config.emergencyStop

\* C28: once the admin's emergency stop has set tradingActive to false, no
\* Trade is created for the user until tradingActive is true again, signals
\* whose handler had loaded the user before the stop included.
C28_NoTradeAfterStopAll ==
    [][Len(trades') > Len(trades) => user.tradingActive]_vars

\* C29: user.consecutiveLosses never decreases: every FILLED Trade of the
\* engine has pnl 0 and counts as a loss, which is what keeps the
\* consecutive-loss guard closed once three fills have been counted.
C29_LossesNeverDecrease ==
    [][user'.consecutiveLosses >= user.consecutiveLosses]_vars

====
